---- MODULE Spec2Model ----
(***************************************************************************)
(* A model of log_template.py: level resolution (set_log_level,            *)
(* set_default_log_level, set_system_log_level), the logger registry       *)
(* (get_logger, init_root_logger), the display name of the formatter       *)
(* (CustomFormatter._get_name) and the module-name fallback                *)
(* (_get_main_module_name).                                                *)
(*                                                                         *)
(* A Python str is a sequence of one-character strings, so that upper(),   *)
(* split('.'), join, replace and strip are computed and not assumed.       *)
(***************************************************************************)
EXTENDS Integers, Sequences, FiniteSets, TLC

VARIABLES
    handlers,           \* logger name -> sequence of the sinks it owns
    level,              \* logger name -> its own threshold (0 is NOTSET)
    environ,            \* os.environ: a function on the names that are set
    DEFAULT_LOG_LEVEL,  \* the module global of line 8
    emitted,            \* the records logged during the last call
    calls,              \* the functions of the module the last call went through
    exc,                \* the exception the last call ended with ("none")
    call,               \* the last call: its arguments, the root's sinks before it (pre),
                        \* the get_logger calls so far, counted to 2 (n), and whether
                        \* all of them had this name, root and path (uniform)
    pc,                 \* per thread: its position in get_logger
    targs,              \* per thread: the arguments of its get_logger call
    overlap,            \* whether a thread began while the other was inside get_logger
    fmt,                \* the formatter's last _get_name: its input and output
    mod                 \* the last _get_main_module_name: its input and output

vars == <<handlers, level, environ, DEFAULT_LOG_LEVEL, emitted, calls, exc, call,
          pc, targs, overlap, fmt, mod>>

----------------------------------------------------------------------------
(* Characters and str.upper() *)

LowerAlpha == <<"a","b","c","d","e","f","g","h","i","j","k","l","m",
                "n","o","p","q","r","s","t","u","v","w","x","y","z">>
UpperAlpha == <<"A","B","C","D","E","F","G","H","I","J","K","L","M",
                "N","O","P","Q","R","S","T","U","V","W","X","Y","Z">>

UpperChar(c) ==
    IF \E i \in 1..26 : LowerAlpha[i] = c
    THEN UpperAlpha[CHOOSE i \in 1..26 : LowerAlpha[i] = c]
    ELSE c

upper(s) == [i \in 1..Len(s) |-> UpperChar(s[i])]

----------------------------------------------------------------------------
(* The level table of the logging facility *)

NOTSET   == 0
DEBUG    == 10
INFO     == 20
WARNING  == 30
ERROR    == 40
CRITICAL == 50

sDEBUG    == <<"D","E","B","U","G">>
sINFO     == <<"I","N","F","O">>
sWARNING  == <<"W","A","R","N","I","N","G">>
sERROR    == <<"E","R","R","O","R">>
sCRITICAL == <<"C","R","I","T","I","C","A","L">>
sWARN     == <<"W","A","R","N">>
sFATAL    == <<"F","A","T","A","L">>
sNOTSET   == <<"N","O","T","S","E","T">>

\* logging.getLevelNamesMapping().keys()
LevelNames == {sDEBUG, sINFO, sWARNING, sERROR, sCRITICAL, sWARN, sFATAL, sNOTSET}

\* logging.getLevelNamesMapping()[s]
NameToLevel(s) ==
    CASE s = sDEBUG    -> DEBUG
      [] s = sINFO     -> INFO
      [] s = sWARNING  -> WARNING
      [] s = sERROR    -> ERROR
      [] s = sCRITICAL -> CRITICAL
      [] s = sWARN     -> WARNING
      [] s = sFATAL    -> CRITICAL
      [] s = sNOTSET   -> NOTSET

SYSTEM_LOG_LEVEL == WARNING

\* logging.getLevelName(s) of a str: the number of a known name, else the
\* str "Level <s>"
getLevelName(s) ==
    IF s \in LevelNames
    THEN [type |-> "int", num |-> NameToLevel(s), str |-> <<>>]
    ELSE [type |-> "str", num |-> 0, str |-> <<"L","e","v","e","l"," ">> \o s]

----------------------------------------------------------------------------
(* The logger hierarchy *)

RootName == <<>>
LoggerNames == { <<>>, <<"a">>, <<"a",".","b">>, <<"b">> }

\* The parent of a logger: the longest proper dotted prefix, else the root
Parent(name) ==
    LET dots == { i \in 1..Len(name) : name[i] = "." }
    IN  IF dots = {} THEN RootName
        ELSE LET last == CHOOSE i \in dots : \A j \in dots : j <= i
             IN  SubSeq(name, 1, last - 1)

RECURSIVE getEffectiveLevel(_, _)
getEffectiveLevel(lv, log) ==
    IF lv[log] # NOTSET THEN lv[log]
    ELSE IF log = RootName THEN NOTSET
    ELSE getEffectiveLevel(lv, Parent(log))

RECURSIVE hasHandlers(_, _)
hasHandlers(h, log) ==
    IF h[log] # <<>> THEN TRUE
    ELSE IF log = RootName THEN FALSE
    ELSE hasHandlers(h, Parent(log))

\* The number of sinks a record logged on `log` is handed to (callHandlers)
RECURSIVE reachedHandlers(_, _)
reachedHandlers(h, log) ==
    Len(h[log]) + (IF log = RootName THEN 0 ELSE reachedHandlers(h, Parent(log)))

----------------------------------------------------------------------------
(* The statements of the level resolver, as functions of the registry       *)
(* st = [level, handlers, emitted, calls, exc]                              *)

\* log.setLevel(lv): an int is taken as is, a str must be a known name
setLevel(st, log, lv) ==
    IF lv.type = "int" THEN [st EXCEPT !.level[log] = lv.num]
    ELSE IF lv.str \in LevelNames
         THEN [st EXCEPT !.level[log] = NameToLevel(lv.str)]
         ELSE [st EXCEPT !.exc = "ValueError"]

\* log.warning('Unknown log level "%s"' % arg)
warning(st, log, arg) ==
    IF WARNING >= getEffectiveLevel(st.level, log)
    THEN [st EXCEPT !.emitted = Append(@,
            [logger |-> log, levelno |-> WARNING, arg |-> arg,
             sinks |-> reachedHandlers(st.handlers, log),
             lastResort |-> reachedHandlers(st.handlers, log) = 0])]
    ELSE st

entered(st, fn) == [st EXCEPT !.calls = Append(@, fn)]

set_system_log_level(st0, log) ==
    LET st == entered(st0, "set_system_log_level")
    IN  setLevel(st, log, [type |-> "int", num |-> SYSTEM_LOG_LEVEL, str |-> <<>>])

\* set_default_log_level without the warning of line 74
set_default_log_level_silent(st0, log) ==
    LET st == entered(st0, "set_default_log_level")
    IN  IF DEFAULT_LOG_LEVEL \in LevelNames
        THEN setLevel(st, log, getLevelName(DEFAULT_LOG_LEVEL))
        ELSE set_system_log_level(st, log)

set_default_log_level(st0, log) ==
    LET st == entered(st0, "set_default_log_level")
    IN  IF DEFAULT_LOG_LEVEL \in LevelNames
        THEN setLevel(st, log, getLevelName(DEFAULT_LOG_LEVEL))
        ELSE LET s1 == set_system_log_level(st, log)
             IN  IF s1.exc # "none" THEN s1
                 ELSE warning(s1, log, DEFAULT_LOG_LEVEL)

\* set_log_level without the .upper() of line 77
set_log_level_no_upper(st0, log, lvl_str) ==
    LET st  == entered(st0, "set_log_level")
        lvl == getLevelName(lvl_str)
        s1  == setLevel(st, log, lvl)
    IN  IF s1.exc = "ValueError"
        THEN LET s2 == set_default_log_level(st, log)
             IN  IF s2.exc # "none" THEN s2
                 ELSE warning(s2, log, lvl_str)
        ELSE s1

\* set_log_level without the try/except of lines 78-80
set_log_level_uncaught(st0, log, lvl_str) ==
    LET st  == entered(st0, "set_log_level")
        lvl == getLevelName(upper(lvl_str))
    IN  setLevel(st, log, lvl)

set_log_level(st0, log, lvl_str) ==
    LET st  == entered(st0, "set_log_level")
        lvl == getLevelName(upper(lvl_str))
        s1  == setLevel(st, log, lvl)
    IN  IF s1.exc = "ValueError"
        THEN LET s2 == set_default_log_level(st, log)
             IN  IF s2.exc # "none" THEN s2
                 ELSE warning(s2, log, upper(lvl_str))
        ELSE s1

----------------------------------------------------------------------------
(* Sinks and the registry *)

get_console_handler(namemode) ==
    [kind |-> "console", namemode |-> namemode, fname |-> "",
     when |-> "", backupCount |-> 0, suffix |-> ""]

get_file_handler(fname, namemode) ==
    [kind |-> "file", namemode |-> namemode, fname |-> fname,
     when |-> "midnight", backupCount |-> 30, suffix |-> "%Y%m%d"]

addHandler(st, log, h) == [st EXCEPT !.handlers[log] = Append(@, h)]

init_root_logger(st0, root_name, logpath, namemode) ==
    LET st == entered(st0, "init_root_logger")
        s1 == setLevel(st, root_name, [type |-> "int", num |-> DEBUG, str |-> <<>>])
        s2 == addHandler(s1, root_name, get_console_handler(namemode))
    IN  IF logpath # ""
        THEN addHandler(s2, root_name, get_file_handler(logpath, namemode))
        ELSE s2

\* os.getenv(key, default)
getenv(key, default) ==
    IF key \in DOMAIN environ THEN environ[key] ELSE default

\* lvl_env is <<>> for None and <<s>> for the str s; `if lvl_env:`
Truthy(lvl_env) == lvl_env # <<>> /\ lvl_env[1] # ""

\* lines 110-113 with the explicit lvl_str as the fallback of os.getenv
ResolveLevelSpec_fallback_arg(lvl_str, lvl_env) ==
    IF Truthy(lvl_env) THEN getenv(lvl_env[1], lvl_str) ELSE lvl_str

\* lines 110-113 of get_logger
ResolveLevelSpec(lvl_str, lvl_env) ==
    IF Truthy(lvl_env) THEN getenv(lvl_env[1], DEFAULT_LOG_LEVEL) ELSE lvl_str

\* get_logger without the guard of line 106
NeedsInit_always(st, name, root_logger) == TRUE

\* line 106 of get_logger: the guard of the initialization
NeedsInit(st, name, root_logger) == ~hasHandlers(st.handlers, name)

get_logger(st0, name, lvl_str, lvl_env, root_logger, logpath, namemode) ==
    LET st == entered(st0, "get_logger")
        s1 == IF NeedsInit(st, name, root_logger)
              THEN init_root_logger(st, root_logger, logpath, namemode)
              ELSE st
    IN  set_log_level(s1, name, ResolveLevelSpec(lvl_str, lvl_env))

----------------------------------------------------------------------------
(* Calls: each is one atomic step of the single-threaded program *)

World == [level |-> level, handlers |-> handlers, emitted |-> <<>>,
          calls |-> <<>>, exc |-> "none"]

Commit(st) ==
    /\ level' = st.level
    /\ handlers' = st.handlers
    /\ emitted' = st.emitted
    /\ calls' = st.calls
    /\ exc' = st.exc

NoCall == [op |-> "none", name |-> <<>>, lvl_str |-> <<>>, lvl_env |-> <<>>,
           root_logger |-> <<>>, logpath |-> "", namemode |-> "", pre |-> <<>>,
           n |-> 0, uniform |-> TRUE]

OtherUnchanged == UNCHANGED <<environ, DEFAULT_LOG_LEVEL, pc, targs, overlap, fmt, mod>>

SetSystemLogLevel(log) ==
    /\ Commit(set_system_log_level(World, log))
    /\ call' = [NoCall EXCEPT !.op = "set_system_log_level", !.name = log]
    /\ OtherUnchanged

SetDefaultLogLevel(log) ==
    /\ Commit(set_default_log_level(World, log))
    /\ call' = [NoCall EXCEPT !.op = "set_default_log_level", !.name = log]
    /\ OtherUnchanged

SetLogLevel(log, lvl_str) ==
    /\ Commit(set_log_level(World, log, lvl_str))
    /\ call' = [NoCall EXCEPT !.op = "set_log_level", !.name = log,
                              !.lvl_str = lvl_str]
    /\ OtherUnchanged

GetLogger(name, lvl_str, lvl_env, root_logger, logpath, namemode) ==
    /\ Commit(get_logger(World, name, lvl_str, lvl_env, root_logger, logpath, namemode))
    /\ call' = [op |-> "get_logger", name |-> name, lvl_str |-> lvl_str,
                lvl_env |-> lvl_env, root_logger |-> root_logger,
                logpath |-> logpath, namemode |-> namemode,
                pre |-> handlers[root_logger],
                n |-> IF call.op \in {"none", "get_logger"} /\ call.n < 2
                      THEN call.n + 1 ELSE call.n,
                uniform |-> \/ call.op = "none"
                            \/ /\ call.op = "get_logger"
                               /\ call.uniform
                               /\ call.name = name
                               /\ call.root_logger = root_logger
                               /\ call.logpath = logpath]
    /\ OtherUnchanged

----------------------------------------------------------------------------
(* The state at import: no logger owns a sink, the root logger is at        *)
(* WARNING, every other logger at NOTSET                                    *)

ImportLevel == [n \in LoggerNames |-> IF n = RootName THEN WARNING ELSE NOTSET]
ImportHandlers == [n \in LoggerNames |-> <<>>]

IdleThreads ==
    /\ pc = <<"idle">>
    /\ targs = <<>>
    /\ overlap = FALSE
IdleFormatter ==
    fmt = [name_mode |-> "", name |-> <<>>, segs |-> <<>>, out |-> <<>>,
           exc |-> "none", done |-> FALSE]
IdleModule ==
    mod = [package |-> <<>>, package_is_none |-> FALSE, file |-> <<>>,
           file_is_none |-> FALSE, stem |-> <<>>, prefix |-> <<>>,
           out |-> <<>>, done |-> FALSE]

\* line 8: DEFAULT_LOG_LEVEL = os.getenv('DEFAULT_LOG_LEVEL', 'INFO').upper()
ImportDefault(env) ==
    upper(IF "DEFAULT_LOG_LEVEL" \in DOMAIN env THEN env["DEFAULT_LOG_LEVEL"]
          ELSE sINFO)

----------------------------------------------------------------------------
(* Level specifications given to the resolver *)

LowerChar(c) ==
    IF \E i \in 1..26 : UpperAlpha[i] = c
    THEN LowerAlpha[CHOOSE i \in 1..26 : UpperAlpha[i] = c]
    ELSE c

\* Every spelling of a name in upper and lower case
CaseMixes(s) ==
    { [i \in 1..Len(s) |-> IF m[i] THEN s[i] ELSE LowerChar(s[i])] :
        m \in [1..Len(s) -> BOOLEAN] }

SeverityNames == {sDEBUG, sINFO, sWARNING, sERROR, sCRITICAL}

sBogus == <<"b","o","g","u","s">>
Unrecognized == { sBogus, <<>>, <<"V","e","r","b","o","s","e">>,
                  <<"L","e","v","e","l"," ","1","0">>, <<"1","0">> }
FacilityNames == { sNOTSET, <<"n","o","t","s","e","t">>, sWARN, <<"w","a","r","n">>,
                   sFATAL, <<"F","a","t","a","l">> }

\* Four spellings of a name: upper, lower, capitalized, alternating
SampleMixes(s) ==
    { s,
      [i \in 1..Len(s) |-> LowerChar(s[i])],
      [i \in 1..Len(s) |-> IF i = 1 THEN s[i] ELSE LowerChar(s[i])],
      [i \in 1..Len(s) |-> IF i % 2 = 0 THEN s[i] ELSE LowerChar(s[i])] }

\* The spellings of severity s that are tried: all of INFO's, four of the others
Spellings(s) == IF s = sINFO THEN CaseMixes(s) ELSE SampleMixes(s)

LevelSpecs == UNION { Spellings(s) : s \in SeverityNames } \cup Unrecognized
                \cup FacilityNames

\* What DEFAULT_LOG_LEVEL may be set to in the environment
DefaultEnvValues == { <<"d","e","b","u","g">>, sINFO, sWARNING, <<"E","r","r","o","r">>,
                      sCRITICAL, sNOTSET, sBogus, <<>> }

Handles == { <<>>, <<"a">> }

InitLevel ==
    /\ level = ImportLevel
    /\ handlers = ImportHandlers
    /\ environ \in { [k \in {} |-> <<>>] }
            \cup { [k \in {"DEFAULT_LOG_LEVEL"} |-> v] : v \in DefaultEnvValues }
    /\ DEFAULT_LOG_LEVEL = ImportDefault(environ)
    /\ emitted = <<>>
    /\ calls = <<>>
    /\ exc = "none"
    /\ call = NoCall
    /\ IdleThreads
    /\ IdleFormatter
    /\ IdleModule

NextLevel ==
    \/ \E log \in Handles : SetSystemLogLevel(log)
    \/ \E log \in Handles : SetDefaultLogLevel(log)
    \/ \E log \in Handles, s \in LevelSpecs : SetLogLevel(log, s)
    \/ \E log \in Handles : GetLogger(log, sINFO, <<>>, RootName, "", "leaf")

SpecLevel == InitLevel /\ [][NextLevel]_vars

----------------------------------------------------------------------------
(* Level resolution: the claims checked under SpecLevel *)

\* The threshold a severity name stands for
SeverityLevel(s) ==
    CASE s = sDEBUG -> 10 [] s = sINFO -> 20 [] s = sWARNING -> 30
      [] s = sERROR -> 40 [] s = sCRITICAL -> 50

Severities == { SeverityLevel(s) : s \in SeverityNames }

\* The value DEFAULT_LOG_LEVEL has in the environment names no level
DefaultUnrecognized ==
    /\ "DEFAULT_LOG_LEVEL" \in DOMAIN environ
    /\ environ["DEFAULT_LOG_LEVEL"] \in Unrecognized

\* The severity whose name DEFAULT_LOG_LEVEL is set to in the environment
DefaultSeverity(s) ==
    IF "DEFAULT_LOG_LEVEL" \in DOMAIN environ
    THEN environ["DEFAULT_LOG_LEVEL"] \in CaseMixes(s)
    ELSE s = sINFO

\* C2: set_log_level with a Severity name in any mix of case leaves the
\* handle's threshold at that Severity, logs no warning and does not go
\* through set_default_log_level, whatever the previous threshold and
\* whatever DEFAULT_LOG_LEVEL is.
C2_ValidNameSetsSeverity ==
    \A s \in SeverityNames :
        (call.op = "set_log_level" /\ call.lvl_str \in Spellings(s)) =>
            /\ level[call.name] = SeverityLevel(s)
            /\ emitted = <<>>
            /\ calls = <<"set_log_level">>
            /\ exc = "none"

C2_Witness ==
    /\ call.op = "set_log_level"
    /\ call.lvl_str = <<"c","R","i","T","i","C","a","L">>
    /\ level[call.name] = 50
    /\ DefaultUnrecognized
    /\ emitted = <<>>

\* C3 as stated: an unrecognized specification with an unrecognized
\* DEFAULT_LOG_LEVEL ends at WARNING with exactly one warning record logged.
C3_ExactlyOneWarning ==
    (call.op = "set_log_level" /\ call.lvl_str \in Unrecognized /\ DefaultUnrecognized) =>
        /\ level[call.name] = 30
        /\ Len(emitted) = 1

\* C3 amended: an unrecognized specification with an unrecognized
\* DEFAULT_LOG_LEVEL ends at WARNING with exactly two warning records logged
\* on the handle: the first reports DEFAULT_LOG_LEVEL, the second reports
\* the specification (both in upper case).
C3_TwoWarnings ==
    \A u \in Unrecognized, d \in Unrecognized :
        ( /\ call.op = "set_log_level"
          /\ call.lvl_str = u
          /\ "DEFAULT_LOG_LEVEL" \in DOMAIN environ
          /\ environ["DEFAULT_LOG_LEVEL"] = d ) =>
            /\ level[call.name] = 30
            /\ exc = "none"
            /\ Len(emitted) = 2
            /\ \A i \in 1..2 : emitted[i].logger = call.name /\ emitted[i].levelno = 30
            /\ d \in CaseMixes(emitted[1].arg)
            /\ u \in CaseMixes(emitted[2].arg)

C3_Witness ==
    /\ call.op = "set_log_level"
    /\ call.lvl_str = <<"V","e","r","b","o","s","e">>
    /\ DefaultUnrecognized
    /\ environ["DEFAULT_LOG_LEVEL"] = sBogus
    /\ level[call.name] = 30
    /\ Len(emitted) = 2
    /\ call.pre = <<>>

\* C4 as stated: an unrecognized specification with DEFAULT_LOG_LEVEL a
\* Severity name D leaves the threshold at D and a WARNING record reporting
\* the specification passes the handle's threshold and reaches the sinks.
C4_WarningReachesSinks ==
    \A d \in SeverityNames :
        (call.op = "set_log_level" /\ call.lvl_str \in Unrecognized /\ DefaultSeverity(d)) =>
            /\ level[call.name] = SeverityLevel(d)
            /\ \E i \in 1..Len(emitted) :
                  /\ emitted[i].levelno = 30
                  /\ emitted[i].logger = call.name
                  /\ call.lvl_str \in CaseMixes(emitted[i].arg)

LevelOps == {"set_log_level", "set_default_log_level", "set_system_log_level"}

\* C5 as stated: after any of the three level calls, with any specification
\* and any DEFAULT_LOG_LEVEL, no call raised and the handle's threshold is
\* one of DEBUG, INFO, WARNING, ERROR, CRITICAL.
C5_AlwaysFiveSeverities ==
    call.op \in LevelOps => (exc = "none" /\ level[call.name] \in Severities)

\* C5 amended: no call raises and the handle's threshold is one of the five
\* Severity values or NOTSET (0); it is NOTSET only when the specification
\* given to set_log_level is NOTSET in some case, or when the call fell back
\* to set_default_log_level and DEFAULT_LOG_LEVEL is NOTSET.
C5_FiveSeveritiesOrNotset ==
    call.op \in LevelOps =>
        /\ exc = "none"
        /\ level[call.name] \in Severities \cup {0}
        /\ level[call.name] = 0 =>
              \/ call.op = "set_log_level" /\ call.lvl_str \in CaseMixes(sNOTSET)
              \/ /\ "set_default_log_level" \in { calls[i] : i \in 1..Len(calls) }
                 /\ "DEFAULT_LOG_LEVEL" \in DOMAIN environ
                 /\ environ["DEFAULT_LOG_LEVEL"] \in CaseMixes(sNOTSET)

C5_Witness ==
    /\ call.op = "set_log_level"
    /\ call.lvl_str = sBogus
    /\ "DEFAULT_LOG_LEVEL" \in DOMAIN environ
    /\ environ["DEFAULT_LOG_LEVEL"] = sNOTSET
    /\ level[call.name] = 0
    /\ exc = "none"

----------------------------------------------------------------------------
(* The registry: get_logger calls, one after the other *)

MaxHandlers == 4

RootNames == { <<>>, <<"a">> }
LogPaths == { "", "app.log" }
NameModes == { "leaf", "short" }

\* The sinks one initialization attaches
SinksOfInit(logpath) == IF logpath # "" THEN 2 ELSE 1

Init ==
    /\ level = ImportLevel
    /\ handlers = ImportHandlers
    /\ environ = [k \in {} |-> <<>>]
    /\ DEFAULT_LOG_LEVEL = ImportDefault(environ)
    /\ emitted = <<>>
    /\ calls = <<>>
    /\ exc = "none"
    /\ call = NoCall
    /\ IdleThreads
    /\ IdleFormatter
    /\ IdleModule

Next ==
    \E name \in LoggerNames, root_logger \in RootNames,
       logpath \in LogPaths, namemode \in NameModes :
        /\ NeedsInit(World, name, root_logger) =>
              Len(handlers[root_logger]) + SinksOfInit(logpath) <= MaxHandlers
        /\ GetLogger(name, sINFO, <<>>, root_logger, logpath, namemode)

Spec == Init /\ [][Next]_vars

----------------------------------------------------------------------------
(* The registry: the claims checked under Spec *)

CountKind(hs, k) == Cardinality({ i \in 1..Len(hs) : hs[i].kind = k })

\* C1: after two or more successive get_logger calls with the same name,
\* the same root name and the same logpath, the logger named root_logger
\* owns exactly one console sink, and with a non-empty logpath exactly one
\* file sink as well.
C1_InitializedOnce ==
    (call.op = "get_logger" /\ call.n >= 2 /\ call.uniform) =>
        /\ CountKind(handlers[call.root_logger], "console") = 1
        /\ call.logpath # "" => CountKind(handlers[call.root_logger], "file") = 1

\* C9: the guard of get_logger is on the logger named root_logger: if it
\* owned no sinks when the call began, then on return it is at DEBUG, owns a
\* console sink and owns a file sink iff logpath is non-empty; if it owned
\* sinks already, the call attached none.
C9_GuardOnRoot ==
    call.op = "get_logger" =>
        IF call.pre = <<>>
        THEN /\ level[call.root_logger] = 10
             /\ CountKind(handlers[call.root_logger], "console") >= 1
             /\ (CountKind(handlers[call.root_logger], "file") >= 1) <=> (call.logpath # "")
        ELSE handlers[call.root_logger] = call.pre

\* C9 for calls whose name is not the root's: the part of the claim that
\* is about the guard alone
C9_GuardOnRootOtherName ==
    (call.op = "get_logger" /\ call.name # call.root_logger) => C9_GuardOnRoot

----------------------------------------------------------------------------
(* The precedence of the level specification in get_logger *)

EnvVarNames == { "APP_LOG_LEVEL", "MISSING_LOG_LEVEL" }
LvlEnvArgs == { <<>>, <<"">> } \cup { <<v>> : v \in EnvVarNames }
LvlStrArgs == { sINFO, <<"d","e","b","u","g">>, <<"C","r","i","t","i","c","a","l">>, sBogus }
AppEnvValues == { <<"w","a","r","n","i","n","g">>, sERROR, sBogus, <<>> }
ResolveDefaults == { <<"E","r","r","o","r">>, sDEBUG, sBogus }
ResolveNames == { <<"a">>, <<"a",".","b">> }

\* os.environ at import: each of the two variables unset or set to one of its values
Environments ==
    { [k \in {} |-> <<>>] }
    \cup { [k \in {"DEFAULT_LOG_LEVEL"} |-> d] : d \in ResolveDefaults }
    \cup { [k \in {"APP_LOG_LEVEL"} |-> a] : a \in AppEnvValues }
    \cup { [k \in {"DEFAULT_LOG_LEVEL", "APP_LOG_LEVEL"} |->
              IF k = "APP_LOG_LEVEL" THEN a ELSE d] :
           a \in AppEnvValues, d \in ResolveDefaults }

InitResolve ==
    /\ level = ImportLevel
    /\ handlers = ImportHandlers
    /\ environ \in Environments
    /\ DEFAULT_LOG_LEVEL = ImportDefault(environ)
    /\ emitted = <<>>
    /\ calls = <<>>
    /\ exc = "none"
    /\ call = NoCall
    /\ IdleThreads
    /\ IdleFormatter
    /\ IdleModule

NextResolve ==
    \E name \in ResolveNames, lvl_str \in LvlStrArgs, lvl_env \in LvlEnvArgs :
        GetLogger(name, lvl_str, lvl_env, RootName, "", "leaf")

SpecResolve == InitResolve /\ [][NextResolve]_vars

\* The threshold set_log_level leaves on a handle for a specification (it
\* does not depend on the threshold before)
ThresholdFor(spec) == set_log_level(World, call.name, spec).level[call.name]

\* C6: when an environment-variable name is given as lvl_env, the returned
\* logger's threshold is what set_log_level gives for the value of that
\* variable, or for DEFAULT_LOG_LEVEL when the variable is unset, whatever
\* lvl_str is; when none is given, it is what set_log_level gives for lvl_str.
C6_Precedence ==
    call.op = "get_logger" =>
        /\ \A v \in EnvVarNames :
              call.lvl_env = <<v>> =>
                 /\ v \in DOMAIN environ =>
                       level[call.name] = ThresholdFor(environ[v])
                 /\ v \notin DOMAIN environ =>
                       level[call.name] = ThresholdFor(DEFAULT_LOG_LEVEL)
        /\ call.lvl_env \in { <<>>, <<"">> } =>
              level[call.name] = ThresholdFor(call.lvl_str)

\* The variable is unset, DEFAULT_LOG_LEVEL is ERROR and lvl_str is INFO
C6_Witness ==
    /\ call.op = "get_logger"
    /\ call.lvl_env = <<"MISSING_LOG_LEVEL">>
    /\ call.lvl_str = sINFO
    /\ DEFAULT_LOG_LEVEL = sERROR
    /\ level[call.name] = 40

\* The variable is set: its value wins over lvl_str
C6_WitnessSet ==
    /\ call.op = "get_logger"
    /\ call.lvl_env = <<"APP_LOG_LEVEL">>
    /\ call.lvl_str = <<"d","e","b","u","g">>
    /\ "APP_LOG_LEVEL" \in DOMAIN environ
    /\ environ["APP_LOG_LEVEL"] = <<"w","a","r","n","i","n","g">>
    /\ level[call.name] = 30

----------------------------------------------------------------------------
(* Two threads, each in one get_logger call for the same root. A thread's   *)
(* steps are the statements of get_logger and init_root_logger; the check   *)
(* of line 106 and the attachments of lines 98 and 100 are separate steps.  *)

Threads == {1, 2}

ThreadArgs ==
    { [name |-> n, root_logger |-> r, logpath |-> p, namemode |-> "leaf", lvl_str |-> sINFO] :
        n \in LoggerNames, r \in RootNames, p \in LogPaths }

InitThreads ==
    /\ level = ImportLevel
    /\ handlers = ImportHandlers
    /\ environ = [k \in {} |-> <<>>]
    /\ DEFAULT_LOG_LEVEL = ImportDefault(environ)
    /\ emitted = <<>>
    /\ calls = <<>>
    /\ exc = "none"
    /\ call = NoCall
    /\ pc = [t \in Threads |-> "start"]
    /\ targs \in { f \in [Threads -> ThreadArgs] :
                     \A s, t \in Threads : /\ f[s].root_logger = f[t].root_logger
                                           /\ f[s].logpath = f[t].logpath }
    /\ overlap = FALSE
    /\ IdleFormatter
    /\ IdleModule

Inside(t) == pc[t] \notin {"start", "done"}

ThreadUnchanged == UNCHANGED <<environ, DEFAULT_LOG_LEVEL, call, targs, fmt, mod>>

\* line 103: log = logging.getLogger(name)
Begin(t) ==
    /\ pc[t] = "start"
    /\ pc' = [pc EXCEPT ![t] = "check"]
    /\ overlap' = (overlap \/ \E s \in Threads \ {t} : Inside(s))
    /\ UNCHANGED <<level, handlers, emitted, calls, exc>>
    /\ ThreadUnchanged

\* line 106: if not log.hasHandlers()
Check(t) ==
    /\ pc[t] = "check"
    /\ pc' = [pc EXCEPT ![t] =
                IF NeedsInit(World, targs[t].name, targs[t].root_logger)
                THEN "setLevel" ELSE "resolve"]
    /\ UNCHANGED <<level, handlers, emitted, calls, exc, overlap>>
    /\ ThreadUnchanged

\* lines 96-97: log = logging.getLogger(root_name); log.setLevel(logging.DEBUG)
InitSetLevel(t) ==
    /\ pc[t] = "setLevel"
    /\ Commit(setLevel(World, targs[t].root_logger,
                       [type |-> "int", num |-> DEBUG, str |-> <<>>]))
    /\ pc' = [pc EXCEPT ![t] = "addConsole"]
    /\ UNCHANGED overlap
    /\ ThreadUnchanged

\* line 98: log.addHandler(get_console_handler(namemode))
InitAddConsole(t) ==
    /\ pc[t] = "addConsole"
    /\ Commit(addHandler(World, targs[t].root_logger,
                         get_console_handler(targs[t].namemode)))
    /\ pc' = [pc EXCEPT ![t] = IF targs[t].logpath # "" THEN "addFile" ELSE "resolve"]
    /\ UNCHANGED overlap
    /\ ThreadUnchanged

\* line 100: log.addHandler(get_file_handler(logpath, namemode))
InitAddFile(t) ==
    /\ pc[t] = "addFile"
    /\ Commit(addHandler(World, targs[t].root_logger,
                         get_file_handler(targs[t].logpath, targs[t].namemode)))
    /\ pc' = [pc EXCEPT ![t] = "resolve"]
    /\ UNCHANGED overlap
    /\ ThreadUnchanged

\* lines 108-117: the level is resolved and applied, the logger returned
Resolve(t) ==
    /\ pc[t] = "resolve"
    /\ Commit(set_log_level(World, targs[t].name,
                            ResolveLevelSpec(targs[t].lvl_str, <<>>)))
    /\ pc' = [pc EXCEPT ![t] = "done"]
    /\ UNCHANGED overlap
    /\ ThreadUnchanged

NextThreads ==
    \E t \in Threads :
        \/ Begin(t)
        \/ Check(t)
        \/ InitSetLevel(t)
        \/ InitAddConsole(t)
        \/ InitAddFile(t)
        \/ Resolve(t)

SpecThreads == InitThreads /\ [][NextThreads]_vars

\* name is root, or root is a dotted prefix of name (the root logger '' is
\* above every logger)
Under(name, root) ==
    \/ name = root
    \/ root = <<>>
    \/ /\ Len(name) > Len(root)
       /\ SubSeq(name, 1, Len(root)) = root
       /\ name[Len(root) + 1] = "."

AllDone == \A t \in Threads : pc[t] = "done"
TheRoot == targs[1].root_logger
NamesUnderRoot == \A t \in Threads : Under(targs[t].name, TheRoot)

\* C7: two threads in get_logger for the same uninitialized root, with both
\* names under the root: when the calls are serialized (one is done before
\* the other begins) the root ends with exactly one console sink; the root
\* can end with two console sinks, and only when the calls overlapped.
C7_SerializedOnce ==
    (AllDone /\ NamesUnderRoot) =>
        /\ ~overlap => CountKind(handlers[TheRoot], "console") = 1
        /\ CountKind(handlers[TheRoot], "console") \in {1, 2}
        /\ CountKind(handlers[TheRoot], "console") = 2 => overlap

\* The race: both threads passed the check and both attached a console sink
C7_Witness ==
    /\ AllDone
    /\ NamesUnderRoot
    /\ overlap
    /\ CountKind(handlers[TheRoot], "console") = 2

\* The serialized case is reached too
C7_WitnessSerialized ==
    /\ AllDone
    /\ NamesUnderRoot
    /\ ~overlap
    /\ CountKind(handlers[TheRoot], "console") = 1

----------------------------------------------------------------------------
(* str.split, str.join and the display name of the formatter *)

\* s.split(sep) for a one-character sep
RECURSIVE split(_, _)
split(s, sep) ==
    LET at == { i \in 1..Len(s) : s[i] = sep }
    IN  IF at = {} THEN <<s>>
        ELSE LET i == CHOOSE k \in at : \A j \in at : k <= j
             IN  <<SubSeq(s, 1, i - 1)>> \o split(SubSeq(s, i + 1, Len(s)), sep)

\* sep.join(xs)
RECURSIVE join(_, _)
join(sep, xs) ==
    IF xs = <<>> THEN <<>>
    ELSE IF Len(xs) = 1 THEN xs[1]
    ELSE xs[1] \o sep \o join(sep, Tail(xs))

\* _get_name with the last segment abbreviated like the others
get_name_short_all(name_mode, name) ==
    LET names == split(name, ".")
    IN  IF name_mode = "short"
        THEN IF \E i \in 1..Len(names) : names[i] = <<>>
             THEN [exc |-> "IndexError", out |-> <<>>]
             ELSE [exc |-> "none",
                   out |-> join(<<".">>, [i \in 1..Len(names) |-> <<names[i][1]>>])]
        ELSE IF name_mode = "leaf" THEN [exc |-> "none", out |-> names[Len(names)]]
        ELSE [exc |-> "none", out |-> name]

\* CustomFormatter._get_name(record) for record.name = name; x[0] of an
\* empty segment raises IndexError
get_name(name_mode, name) ==
    IF name_mode = "leaf"
    THEN LET names == split(name, ".")
         IN  [exc |-> "none", out |-> names[Len(names)]]
    ELSE IF name_mode = "full"
    THEN [exc |-> "none", out |-> name]
    ELSE IF name_mode = "short"
    THEN LET names == split(name, ".")
             heads  == SubSeq(names, 1, Len(names) - 1)
         IN  IF \E i \in 1..Len(heads) : heads[i] = <<>>
             THEN [exc |-> "IndexError", out |-> <<>>]
             ELSE LET n == [i \in 1..Len(heads) |-> <<heads[i][1]>>]
                  IN  [exc |-> "none",
                       out |-> join(<<".">>, Append(n, names[Len(names)]))]
    ELSE [exc |-> "none", out |-> name]

MaxSegments == 3

sAlpha == <<"a","l","p","h","a">>
sBeta  == <<"b","e","t","a">>
sGamma == <<"g","a","m","m","a">>
SegmentSet == { sAlpha, sBeta, sGamma, <<"x">>, <<>> }
FormatterModes == { "leaf", "full", "short", "file" }

\* The dotted name made of the segments
RECURSIVE Dotted(_)
Dotted(segs) ==
    IF Len(segs) = 1 THEN segs[1]
    ELSE segs[1] \o <<".">> \o Dotted(Tail(segs))

SegmentLists == UNION { [1..n -> SegmentSet] : n \in 1..MaxSegments }

InitName ==
    /\ level = ImportLevel
    /\ handlers = ImportHandlers
    /\ environ = [k \in {} |-> <<>>]
    /\ DEFAULT_LOG_LEVEL = ImportDefault(environ)
    /\ emitted = <<>>
    /\ calls = <<>>
    /\ exc = "none"
    /\ call = NoCall
    /\ IdleThreads
    /\ \E m \in FormatterModes, segs \in SegmentLists :
          fmt = [name_mode |-> m, name |-> Dotted(segs), segs |-> segs,
                 out |-> <<>>, exc |-> "none", done |-> FALSE]
    /\ IdleModule

\* line 41 of format: name = self._get_name(record)
GetName ==
    /\ ~fmt.done
    /\ LET r == get_name(fmt.name_mode, fmt.name)
       IN  fmt' = [fmt EXCEPT !.out = r.out, !.exc = r.exc, !.done = TRUE]
    /\ UNCHANGED <<handlers, level, environ, DEFAULT_LOG_LEVEL, emitted, calls, exc,
                   call, pc, targs, overlap, mod>>

NextName == GetName

SpecName == InitName /\ [][NextName]_vars

\* The first character of every segment but the last, then the last, with dots
RECURSIVE Abbreviated(_)
Abbreviated(segs) ==
    IF Len(segs) = 1 THEN segs[1]
    ELSE <<segs[1][1], ".">> \o Abbreviated(Tail(segs))

NonEmptySegments == \A i \in 1..Len(fmt.segs) : fmt.segs[i] # <<>>

\* C8: for a dotted name of one or more non-empty segments the display name
\* is the last segment in mode leaf, the whole name in mode full, and in
\* mode short the first character of every segment but the last, then the
\* last segment whole, joined by dots; a single-segment name is returned
\* unchanged by all three.
C8_DisplayName ==
    (fmt.done /\ NonEmptySegments) =>
        /\ fmt.exc = "none"
        /\ fmt.name_mode = "leaf" => fmt.out = fmt.segs[Len(fmt.segs)]
        /\ fmt.name_mode = "full" => fmt.out = Dotted(fmt.segs)
        /\ fmt.name_mode = "short" => fmt.out = Abbreviated(fmt.segs)
        /\ (Len(fmt.segs) = 1 /\ fmt.name_mode \in {"leaf", "full", "short"}) =>
              fmt.out = fmt.segs[1]

C8_Witness ==
    /\ fmt.done
    /\ fmt.name_mode = "short"
    /\ fmt.segs = <<sAlpha, sBeta, sGamma>>
    /\ fmt.name = <<"a","l","p","h","a",".","b","e","t","a",".","g","a","m","m","a">>
    /\ fmt.out = <<"a",".","b",".","g","a","m","m","a">>

----------------------------------------------------------------------------
(* The name of the entry-point module: _get_main_module_name *)

sInit == <<"_","_","i","n","i","t","_","_">>
sMain == <<"_","_","m","a","i","n","_","_">>
sPy   == <<".","p","y">>

\* os.path.basename(p)
basename(p) ==
    LET at == { i \in 1..Len(p) : p[i] = "/" }
    IN  IF at = {} THEN p
        ELSE LET i == CHOOSE k \in at : \A j \in at : j <= k
             IN  SubSeq(p, i + 1, Len(p))

\* s.endswith(suffix)
endswith(s, suffix) ==
    /\ Len(s) >= Len(suffix)
    /\ SubSeq(s, Len(s) - Len(suffix) + 1, Len(s)) = suffix

\* os.path.join(a, b) of posixpath
join2(a, b) ==
    IF b # <<>> /\ b[1] = "/" THEN b
    ELSE IF a = <<>> \/ a[Len(a)] = "/" THEN a \o b
    ELSE a \o <<"/">> \o b

\* s.replace(old, new) for one-character old and new
replace(s, old, new) == [i \in 1..Len(s) |-> IF s[i] = old THEN new ELSE s[i]]

\* s.strip(chars)
RECURSIVE strip(_, _)
strip(s, chars) ==
    IF s = <<>> THEN s
    ELSE IF s[1] \in chars THEN strip(Tail(s), chars)
    ELSE IF s[Len(s)] \in chars THEN strip(SubSeq(s, 1, Len(s) - 1), chars)
    ELSE s

\* Python's == : values of different types are never equal
PyEq(a, b) == a.type = b.type /\ a.val = b.val

\* line 133 with `in` in place of `==`
IsSentinelStem_membership(fname) == fname \in {sInit, sMain}

\* line 133: fname == ("__init__", "__main__"), a str against a tuple
IsSentinelStem(fname) ==
    PyEq([type |-> "str", val |-> fname], [type |-> "tuple", val |-> <<sInit, sMain>>])

\* _get_main_module_name(module, prefix); m is the module: its __package__
\* and __file__, each of which may be None
get_main_module_name(m, prefix) ==
    LET package == IF m.package_is_none THEN <<>> ELSE m.package
    IN  IF m.file_is_none THEN package
        ELSE LET base  == basename(m.file)
                 fname == IF endswith(base, sPy)
                          THEN SubSeq(base, 1, Len(base) - Len(sPy))
                          ELSE base
             IN  IF IsSentinelStem(fname) THEN package
                 ELSE strip(replace(join2(join2(prefix, package), fname), "/", "."),
                            {"/", "."})

sPkg == <<"p","k","g">>
Prefixes == { <<>>, <<"a","p","p">>, <<"a","p","p","/","c","l","i">> }
Packages == { <<>>, sPkg, <<"p","k","g",".","s","u","b">> }
Stems == { sInit, sMain, <<"r","u","n">>, <<"_","_","m","a","i","n">> }
Dirs == { <<>>, <<"/","s","r","v","/","p","k","g","/">>, <<"p","k","g","/">> }
Exts == { sPy, <<>> }

Modules ==
    { [package |-> pk, package_is_none |-> FALSE, file |-> d \o s \o e,
       file_is_none |-> FALSE, stem |-> s] :
        pk \in Packages, d \in Dirs, s \in Stems, e \in Exts }
    \cup { [package |-> <<>>, package_is_none |-> TRUE, file |-> d \o s \o sPy,
            file_is_none |-> FALSE, stem |-> s] : d \in Dirs, s \in Stems }
    \cup { [package |-> pk, package_is_none |-> FALSE, file |-> <<>>,
            file_is_none |-> TRUE, stem |-> <<>>] : pk \in Packages }
    \cup { [package |-> <<>>, package_is_none |-> TRUE, file |-> <<>>,
            file_is_none |-> TRUE, stem |-> <<>>] }

InitModule ==
    /\ level = ImportLevel
    /\ handlers = ImportHandlers
    /\ environ = [k \in {} |-> <<>>]
    /\ DEFAULT_LOG_LEVEL = ImportDefault(environ)
    /\ emitted = <<>>
    /\ calls = <<>>
    /\ exc = "none"
    /\ call = NoCall
    /\ IdleThreads
    /\ IdleFormatter
    /\ \E m \in Modules, prefix \in Prefixes :
          mod = [package |-> m.package, package_is_none |-> m.package_is_none,
                 file |-> m.file, file_is_none |-> m.file_is_none, stem |-> m.stem,
                 prefix |-> prefix, out |-> <<>>, done |-> FALSE]

\* line 147 of get_module_name: return _get_main_module_name(module, prefix)
GetMainModuleName ==
    /\ ~mod.done
    /\ mod' = [mod EXCEPT !.out = get_main_module_name(mod, mod.prefix), !.done = TRUE]
    /\ UNCHANGED <<handlers, level, environ, DEFAULT_LOG_LEVEL, emitted, calls, exc,
                   call, pc, targs, overlap, fmt>>

NextModule == GetMainModuleName

SpecModule == InitModule /\ [][NextModule]_vars

\* The module of the state with its file replaced by a file of stem s
WithStem(s) == [mod EXCEPT !.file = s \o sPy, !.file_is_none = FALSE, !.stem = s]

\* The non-empty ones of the parts, joined with dots
RECURSIVE DotJoined(_)
DotJoined(parts) ==
    IF parts = <<>> THEN <<>>
    ELSE IF parts[1] = <<>> THEN DotJoined(Tail(parts))
    ELSE LET rest == DotJoined(Tail(parts))
         IN  IF rest = <<>> THEN parts[1] ELSE parts[1] \o <<".">> \o rest

SlashesAsDots(s) == [i \in 1..Len(s) |-> IF s[i] = "/" THEN "." ELSE s[i]]

\* C10 as stated: with the file path available, for exactly one of the
\* stems __init__ and __main__ the function returns the package alone.
C10_OneSentinelLive ==
    (mod.done /\ ~mod.file_is_none) =>
        Cardinality({ s \in {sInit, sMain} :
            get_main_module_name(WithStem(s), mod.prefix) = mod.package }) = 1

\* C10 amended: with the file path available the branch that returns the
\* bare package is dead for both sentinel stems: for every stem, __init__
\* and __main__ included, the function returns the non-empty ones of prefix,
\* package and stem joined with dots, with no leading or trailing dot.
C10_BothSentinelsDead ==
    (mod.done /\ ~mod.file_is_none) =>
        /\ mod.out = DotJoined(<<SlashesAsDots(mod.prefix), mod.package, mod.stem>>)
        /\ mod.out # <<>>
        /\ mod.out[1] # "." /\ mod.out[Len(mod.out)] # "."
        /\ \A s \in {sInit, sMain} :
              get_main_module_name(WithStem(s), mod.prefix)
                 = DotJoined(<<SlashesAsDots(mod.prefix), mod.package, s>>)

C10_Witness ==
    /\ mod.done
    /\ mod.stem = sInit
    /\ mod.file = <<"/","s","r","v","/","p","k","g","/">> \o sInit \o sPy
    /\ mod.package = sPkg
    /\ mod.prefix = <<"a","p","p">>
    /\ mod.out = <<"a","p","p",".","p","k","g",".">> \o sInit

====
